---- MODULE Spec2Model ----
(***************************************************************************)
(* One relay session of src/main.py: handle_media_stream bridges a Twilio  *)
(* media-stream WebSocket to a Gemini Live session with two coroutines run *)
(* by asyncio.gather: receive_from_twilio (the inbound pump) and           *)
(* send_to_twilio (the outbound pump).                                     *)
(*                                                                         *)
(* The pumps are asyncio tasks: a step runs from one await to the next, so *)
(* each action below is the code between two suspension points.  The       *)
(* suspension points are the telephony receive inside iter_text (117), the *)
(* await of session.send (129), the backend receive (142), the await of    *)
(* send_json (146) and the await of websocket.close (159).  A message that *)
(* a receive has produced is handed to its task when the task is next      *)
(* scheduled, so delivery and processing are two steps.                    *)
(*                                                                         *)
(* The WebSocket object keeps two states, as Starlette does: client_state  *)
(* becomes DISCONNECTED when a receive yields the peer's disconnect, and   *)
(* application_state becomes DISCONNECTED when the application sends its   *)
(* close.  A send or close after the application's close raises            *)
(* RuntimeError, and so does receive_text.                                 *)
(***************************************************************************)
EXTENDS Naturals, Sequences, FiniteSets

\* Bounds of the model: how many telephony messages and backend events one
\* session is given.
MaxIn == 3
MaxOut == 2

None == "None"
Missing == "Missing"

\* ---------------------------------------------------------------- inputs

\* The (callSid, streamSid) of the k-th start event of a session: a repeated
\* start carries other identifiers than the first.
CallAt(k) == IF k = 1 THEN << "CA1", "MZ1" >> ELSE << "CA2", "MZ2" >>

\* The k-th audio chunk of a direction: consecutive chunks differ.
AudioAt(k) == IF k % 2 = 1 THEN "x" ELSE "y"

RawAudio == { "x", "y" }

\* base64 of a chunk and its inverse ("x" is "eA==", "y" is "eQ==").
b64encode(raw) == IF raw = "x" THEN "eA==" ELSE "eQ=="

b64decode(text) == CHOOSE r \in RawAudio : b64encode(r) = text

Msg(json, event, callSid, streamSid, payload) ==
    [json |-> json, event |-> event, callSid |-> callSid,
     streamSid |-> streamSid, payload |-> payload]

StartMsg(c, s) == Msg("ok", "start", c, s, Missing)
MediaMsg(p) == Msg("ok", "media", Missing, Missing, p)
StopMsg == Msg("ok", "stop", Missing, Missing, Missing)
OtherMsg == Msg("ok", "connected", Missing, Missing, Missing)
BadJson == Msg("bad", Missing, Missing, Missing, Missing)
NoMsg == Msg(None, None, None, None, None)

\* The number of events of a kind among the received messages.
CountEvent(msgs, event) ==
    Cardinality({ i \in 1..Len(msgs) : msgs[i].event = event })

\* What the telephony leg can send after msgs: the next start, the next
\* media, stop, an event of another kind, text that is not JSON, and start
\* and media events that lack a required field.
TelephonyMessages(msgs) ==
    { StartMsg(CallAt(CountEvent(msgs, "start") + 1)[1],
               CallAt(CountEvent(msgs, "start") + 1)[2]),
      MediaMsg(b64encode(AudioAt(CountEvent(msgs, "media") + 1))),
      StopMsg, OtherMsg, BadJson,
      StartMsg("CA1", Missing), MediaMsg(Missing) }

FunctionCall(name, reason) == [name |-> name, reason |-> reason]

Transfer(reason) == FunctionCall("transfer_to_human", reason)
OtherTool == FunctionCall("lookup_order", Missing)

Response(audio, calls) == [audio |-> audio, tool_call |-> calls]

\* The number of responses with audio among the received ones.
CountAudio(resps) ==
    Cardinality({ i \in 1..Len(resps) : resps[i].audio # None })

\* What session.receive can yield after resps: the next audio chunk, an
\* event with neither audio nor tool call, a tool call of another name, and
\* transfer_to_human alone, after another call and with audio, and twice in
\* one event.
BackendResponses(resps) ==
    { Response(AudioAt(CountAudio(resps) + 1), <<>>),
      Response(None, <<>>),
      Response(None, << OtherTool >>),
      Response(None, << Transfer("angry customer") >>),
      Response(AudioAt(CountAudio(resps) + 1), << OtherTool, Transfer(Missing) >>),
      Response(None, << Transfer("angry customer"), Transfer(Missing) >>) }

NoResponse == Response(None, <<>>)

\* Two connections accepted side by side, each served by its own call of
\* handle_media_stream.
Sessions == { 1, 2 }

\* The (callSid, streamSid) of the k-th start event of a connection: the
\* platform gives every call and stream its own identifiers.
SessionCallAt(s, k) ==
    IF s = 1 THEN CallAt(k)
    ELSE IF k = 1 THEN << "CA7", "MZ7" >> ELSE << "CA8", "MZ8" >>

\* The locals of one call of handle_media_stream before 109, with the
\* histories of the identifiers it has used.
NewRelay ==
    [ pc |-> "connect", call_sid |-> None, stream_sid |-> None,
      starts |-> 0, sent |-> <<>>, transfers |-> <<>> ]

\* ----------------------------------------------------------------- state

VARIABLES
    hPc,                \* handle_media_stream: connect, gather, finally, returned, raised
    session,            \* the Gemini Live session: none, open, released
    call_sid,           \* nonlocal call_sid (110)
    stream_sid,         \* nonlocal stream_sid (111)
    client_state,       \* websocket.client_state
    application_state,  \* websocket.application_state
    inPc,               \* receive_from_twilio: idle, recv, got, sending, done
    inMsg,              \* the message handed to receive_from_twilio
    inExit,             \* why receive_from_twilio ended
    outPc,              \* send_to_twilio: idle, recv, got, tool, closing, done
    outMsg,             \* the response handed to send_to_twilio
    outExit,            \* why send_to_twilio ended
    inRecv,             \* history: messages iter_text yielded
    backendSent,        \* history: chunks passed to session.send
    outRecv,            \* history: responses session.receive yielded
    twilioLog,          \* history: send_json, initiate_transfer and close calls
    connects,           \* history: the number of live.connect attempts (109)
    releases,           \* history: the number of exits of the async with (109)
    relay               \* two handlers side by side: the locals of each (110-111)

vars == << hPc, session, call_sid, stream_sid, client_state, application_state,
           inPc, inMsg, inExit, outPc, outMsg, outExit,
           inRecv, backendSent, outRecv, twilioLog, connects, releases,
           relay >>

handlerVars == << hPc, session, connects, releases, relay >>
inVars == << inPc, inMsg, inExit, inRecv, backendSent >>
outVars == << outPc, outMsg, outExit, outRecv >>

Init ==
    /\ hPc = "connect"
    /\ session = "none"
    /\ call_sid = None
    /\ stream_sid = None
    /\ client_state = "CONNECTED"
    /\ application_state = "CONNECTED"
    /\ inPc = "idle"
    /\ inMsg = NoMsg
    /\ inExit = None
    /\ outPc = "idle"
    /\ outMsg = NoResponse
    /\ outExit = None
    /\ inRecv = <<>>
    /\ backendSent = <<>>
    /\ outRecv = <<>>
    /\ twilioLog = <<>>
    /\ connects = 0
    /\ releases = 0
    /\ relay = [ s \in Sessions |-> NewRelay ]

\* ------------------------------------------------------ handle_media_stream

\* genai_client.live.connect succeeds: the two pumps are created by gather and
\* each runs to its first receive.
ConnectOk ==
    /\ hPc = "connect"
    /\ hPc' = "gather"
    /\ session' = "open"
    /\ call_sid' = None
    /\ stream_sid' = None
    /\ inPc' = "recv"
    /\ outPc' = "recv"
    /\ connects' = connects + 1
    /\ UNCHANGED << client_state, application_state, inMsg, inExit, outMsg,
                    outExit, inRecv, backendSent, outRecv, twilioLog,
                    releases, relay >>

\* genai_client.live.connect raises: caught at 167, on to the finally block.
ConnectFail ==
    /\ hPc = "connect"
    /\ hPc' = "finally"
    /\ connects' = connects + 1
    /\ UNCHANGED << session, call_sid, stream_sid, client_state,
                    application_state, inVars, outVars, twilioLog, releases,
                    relay >>

\* ------------------------------------------------------ receive_from_twilio

\* The loop goes back to iter_text, whose receive_text refuses to receive once
\* the application has sent its close: RuntimeError, caught at 136.
InLoop ==
    IF application_state = "CONNECTED"
    THEN inPc' = "recv" /\ inExit' = inExit
    ELSE inPc' = "done" /\ inExit' = "not_connected"

\* The pump ends: by break (133), by the end of iter_text, or in a handler
\* (134-137), which only logs.
InEnd(why) == inPc' = "done" /\ inExit' = why

\* iter_text yields a text message from the telephony leg (117).
TwilioDeliver(m) ==
    /\ inPc = "recv"
    /\ client_state = "CONNECTED"
    /\ application_state = "CONNECTED"
    /\ Len(inRecv) < MaxIn
    /\ inPc' = "got"
    /\ inMsg' = m
    /\ inRecv' = Append(inRecv, m)
    /\ UNCHANGED << handlerVars, call_sid, stream_sid, client_state,
                    application_state, inExit, backendSent, outVars, twilioLog >>

\* The receive yields websocket.disconnect (the peer hung up, or the server
\* reports the application's own close): client_state becomes DISCONNECTED
\* and iter_text ends the iteration.
TwilioDisconnect ==
    /\ inPc = "recv"
    /\ client_state' = "DISCONNECTED"
    /\ InEnd("disconnect")
    /\ UNCHANGED << handlerVars, call_sid, stream_sid, application_state,
                    inMsg, inRecv, backendSent, outVars, twilioLog >>

\* json.loads (118) or a subscript of 122, 123, 128 raises.
Malformed(m) ==
    \/ m.json # "ok"
    \/ m.event = "start" /\ (m.callSid = Missing \/ m.streamSid = Missing)
    \/ m.event = "media" /\ m.payload = Missing

\* 121-124: a start event sets call_sid and stream_sid.
InStart ==
    /\ inPc = "got"
    /\ ~Malformed(inMsg)
    /\ inMsg.event = "start"
    /\ call_sid' = inMsg.callSid
    /\ stream_sid' = inMsg.streamSid
    /\ InLoop
    /\ UNCHANGED << handlerVars, client_state, application_state, inMsg,
                    inRecv, backendSent, outVars, twilioLog >>

\* Fault: the decoded chunk is put in front of the chunks already sent.
InMediaReordered ==
    /\ inPc = "got"
    /\ ~Malformed(inMsg)
    /\ inMsg.event = "media"
    /\ \/ /\ backendSent' = << b64decode(inMsg.payload) >> \o backendSent
          /\ inPc' = "sending"
          /\ inExit' = inExit
       \/ /\ backendSent' = backendSent
          /\ InEnd("send_error")
    /\ UNCHANGED << handlerVars, call_sid, stream_sid, client_state,
                    application_state, inMsg, inRecv, outVars, twilioLog >>

\* 126-129: a media event is decoded and passed to session.send, which may
\* raise (caught at 136).
InMedia ==
    /\ inPc = "got"
    /\ ~Malformed(inMsg)
    /\ inMsg.event = "media"
    /\ \/ /\ backendSent' = Append(backendSent, b64decode(inMsg.payload))
          /\ inPc' = "sending"
          /\ inExit' = inExit
       \/ /\ backendSent' = backendSent
          /\ InEnd("send_error")
    /\ UNCHANGED << handlerVars, call_sid, stream_sid, client_state,
                    application_state, inMsg, inRecv, outVars, twilioLog >>

\* The await of session.send (129) completes and the loop continues.
InSendDone ==
    /\ inPc = "sending"
    /\ InLoop
    /\ UNCHANGED << handlerVars, call_sid, stream_sid, client_state,
                    application_state, inMsg, inRecv, backendSent, outVars,
                    twilioLog >>

\* 131-133: a stop event breaks out of the loop.
InStop ==
    /\ inPc = "got"
    /\ ~Malformed(inMsg)
    /\ inMsg.event = "stop"
    /\ InEnd("stop")
    /\ UNCHANGED << handlerVars, call_sid, stream_sid, client_state,
                    application_state, inMsg, inRecv, backendSent, outVars,
                    twilioLog >>

\* An event of another kind matches no branch of 121-133.
InOther ==
    /\ inPc = "got"
    /\ ~Malformed(inMsg)
    /\ inMsg.event \notin { "start", "media", "stop" }
    /\ InLoop
    /\ UNCHANGED << handlerVars, call_sid, stream_sid, client_state,
                    application_state, inMsg, inRecv, backendSent, outVars,
                    twilioLog >>

\* The message raises inside the loop body; the handler at 136 is outside the
\* loop, so the pump ends.  A start event with callSid but no streamSid has
\* assigned call_sid (122) before 123 raises.
InMalformed ==
    /\ inPc = "got"
    /\ Malformed(inMsg)
    /\ call_sid' = IF inMsg.json = "ok" /\ inMsg.event = "start"
                      /\ inMsg.callSid # Missing
                   THEN inMsg.callSid ELSE call_sid
    /\ InEnd("malformed")
    /\ UNCHANGED << handlerVars, stream_sid, client_state, application_state,
                    inMsg, inRecv, backendSent, outVars, twilioLog >>

receive_from_twilio ==
    \/ \E m \in TelephonyMessages(inRecv) : TwilioDeliver(m)
    \/ TwilioDisconnect
    \/ InStart
    \/ InMedia
    \/ InSendDone
    \/ InStop
    \/ InOther
    \/ InMalformed

\* ----------------------------------------------------------- send_to_twilio

\* Fault: the name of the call is not compared; any call counts.
FirstTransferAnyName(calls, i) == IF i > Len(calls) THEN 0 ELSE i

RECURSIVE FirstTransfer(_, _)
\* 154-155: the position in function_calls of the first call named
\* transfer_to_human, from position i on; 0 when there is none.
FirstTransfer(calls, i) ==
    IF i > Len(calls) THEN 0
    ELSE IF calls[i].name = "transfer_to_human" THEN i
    ELSE FirstTransfer(calls, i + 1)

\* 156: call.args.get('reason', 'user_request').
TransferReason(call) ==
    IF call.reason = Missing THEN "user_request" ELSE call.reason

\* 146-150: the media message send_json is given.
MediaEntry(audio) == << "send_json", stream_sid, b64encode(audio) >>

\* 62-77: initiate_transfer updates the call and logs; result is the outcome
\* of the remote update, which initiate_transfer never raises.
TransferEntry(call, result) ==
    << "transfer", call_sid, TransferReason(call), result >>

\* websocket.close(): the call is recorded with the entry's third field
\* telling whether the close was sent or refused with RuntimeError.
CloseEntry(by) ==
    << "close", by,
       IF application_state = "CONNECTED" THEN "sent" ELSE "RuntimeError" >>

OutEnd(why) == outPc' = "done" /\ outExit' = why

\* session.receive yields a server event (142).
GeminiDeliver(r) ==
    /\ outPc = "recv"
    /\ Len(outRecv) < MaxOut
    /\ outPc' = "got"
    /\ outMsg' = r
    /\ outRecv' = Append(outRecv, r)
    /\ UNCHANGED << handlerVars, call_sid, stream_sid, client_state,
                    application_state, inVars, outExit, twilioLog >>

\* session.receive ends: the async for is exhausted and the pump returns.
GeminiEnd ==
    /\ outPc = "recv"
    /\ OutEnd("end")
    /\ UNCHANGED << handlerVars, call_sid, stream_sid, client_state,
                    application_state, inVars, outMsg, outRecv, twilioLog >>

\* session.receive raises (the backend transport drops): caught at 161.
GeminiError ==
    /\ outPc = "recv"
    /\ OutEnd("stream_error")
    /\ UNCHANGED << handlerVars, call_sid, stream_sid, client_state,
                    application_state, inVars, outMsg, outRecv, twilioLog >>

\* 144-150: the audio of the response is sent with the current stream_sid.
\* send_json raises (caught at 161) when the application has already sent its
\* close, and may raise on a dead transport.
OutAudio ==
    /\ outPc = "got"
    /\ outMsg.audio # None
    /\ \/ /\ application_state = "CONNECTED"
          /\ twilioLog' = Append(twilioLog, MediaEntry(outMsg.audio))
          /\ outPc' = "tool"
          /\ outExit' = outExit
       \/ /\ OutEnd("send_error")
          /\ twilioLog' = twilioLog
    /\ UNCHANGED << handlerVars, call_sid, stream_sid, client_state,
                    application_state, inVars, outMsg, outRecv >>

\* Fault: the tool call of a response is handled before its audio is sent.
AtToolCallEarly == outPc \in { "got", "tool" }

\* The response is at 153: directly when it carries no audio, else after the
\* await of send_json.
AtToolCall == outPc = "tool" \/ (outPc = "got" /\ outMsg.audio = None)

\* Fault: a transfer call for every transfer_to_human call of the response.
TransferCallsEach(calls, result) ==
    LET ts == SelectSeq(calls, LAMBDA c : c.name = "transfer_to_human")
    IN  [ k \in 1..Len(ts) |-> TransferEntry(ts[k], result) ]

\* 154-157: the transfer calls made for the function_calls of a response: one,
\* for the first call named transfer_to_human.
TransferCalls(calls, result) ==
    << TransferEntry(calls[FirstTransfer(calls, 1)], result) >>

\* Fault: the transfer is made but the connection is not closed and the loop
\* goes on.
OutTransferNoExit(result) ==
    /\ twilioLog' = twilioLog \o TransferCalls(outMsg.tool_call, result)
    /\ application_state' = application_state
    /\ outPc' = "recv"
    /\ outExit' = outExit

\* Fault: the connection is closed only when the remote update succeeded.
OutTransferCloseOnSuccess(result) ==
    /\ twilioLog' = twilioLog \o TransferCalls(outMsg.tool_call, result)
                              \o (IF result = "ok"
                                  THEN << CloseEntry("transfer") >> ELSE <<>>)
    /\ application_state' = IF result = "ok" THEN "DISCONNECTED"
                            ELSE application_state
    /\ outPc' = IF result = "ok" THEN "closing" ELSE "recv"
    /\ outExit' = outExit

\* Fault: the transfer is made and the pump returns, but the connection is
\* not closed.
OutTransferNoClose(result) ==
    /\ twilioLog' = twilioLog \o TransferCalls(outMsg.tool_call, result)
    /\ application_state' = application_state
    /\ outPc' = "closing"
    /\ outExit' = outExit

\* 157-160 for one outcome of the remote update: initiate_transfer, then
\* websocket.close(), with no await in between; the pump is then suspended in
\* close and returns when it resumes.
OutTransferWith(result) ==
    /\ twilioLog' = twilioLog \o TransferCalls(outMsg.tool_call, result)
                              \o << CloseEntry("transfer") >>
    /\ application_state' = "DISCONNECTED"
    /\ outPc' = "closing"
    /\ outExit' = outExit

\* 72-77: the outcomes of the remote update: it fails (74-77, logged) for any
\* call, and can only succeed for a call identifier Twilio issued.
TransferOutcomes ==
    IF call_sid = None THEN { "TwilioRestException" }
    ELSE { "ok", "TwilioRestException" }

\* 153-160 with a transfer_to_human call in the response.
OutTransfer ==
    /\ AtToolCall
    /\ FirstTransfer(outMsg.tool_call, 1) # 0
    /\ \E result \in TransferOutcomes : OutTransferWith(result)
    /\ UNCHANGED << handlerVars, call_sid, stream_sid, client_state, inVars,
                    outMsg, outRecv >>

\* 160: return.
OutReturn ==
    /\ outPc = "closing"
    /\ OutEnd("transfer")
    /\ UNCHANGED << handlerVars, call_sid, stream_sid, client_state,
                    application_state, inVars, outMsg, outRecv, twilioLog >>

\* 153-155 with no transfer_to_human call: nothing is done and the loop goes
\* back to session.receive.
OutNoTransfer ==
    /\ AtToolCall
    /\ FirstTransfer(outMsg.tool_call, 1) = 0
    /\ outPc' = "recv"
    /\ UNCHANGED << handlerVars, call_sid, stream_sid, client_state,
                    application_state, inVars, outMsg, outExit, outRecv,
                    twilioLog >>

send_to_twilio ==
    \/ \E r \in BackendResponses(outRecv) : GeminiDeliver(r)
    \/ GeminiEnd
    \/ GeminiError
    \/ OutAudio
    \/ OutTransfer
    \/ OutReturn
    \/ OutNoTransfer

\* ------------------------------------------------- handle_media_stream, end

\* Fault: the gather is left as soon as one pump has ended.
GatherFirstDone ==
    /\ hPc = "gather"
    /\ inPc = "done" \/ outPc = "done"
    /\ session' = "released"
    /\ releases' = releases + 1
    /\ hPc' = "finally"
    /\ UNCHANGED << call_sid, stream_sid, client_state, application_state,
                    inVars, outVars, twilioLog, connects, relay >>

\* 165: gather returns when both pumps have ended; leaving the async with
\* releases the session.
GatherDone ==
    /\ hPc = "gather"
    /\ inPc = "done"
    /\ outPc = "done"
    /\ session' = "released"
    /\ releases' = releases + 1
    /\ hPc' = "finally"
    /\ UNCHANGED << call_sid, stream_sid, client_state, application_state,
                    inVars, outVars, twilioLog, connects, relay >>

\* Fault: the test of 171 is inverted.
NeedsCloseInverted == client_state = "DISCONNECTED"

\* 171: the cleanup closes unless the client side is DISCONNECTED.
NeedsClose == client_state # "DISCONNECTED"

\* 169-173: the cleanup.  A close refused with RuntimeError leaves the handler
\* by that exception.
Cleanup ==
    /\ hPc = "finally"
    /\ IF NeedsClose
       THEN /\ twilioLog' = Append(twilioLog, CloseEntry("cleanup"))
            /\ application_state' = "DISCONNECTED"
            /\ hPc' = IF application_state = "CONNECTED"
                      THEN "returned" ELSE "raised"
       ELSE /\ hPc' = "returned"
            /\ UNCHANGED << twilioLog, application_state >>
    /\ UNCHANGED << session, call_sid, stream_sid, client_state, inVars,
                    outVars, connects, releases, relay >>

handle_media_stream ==
    \/ ConnectOk
    \/ ConnectFail
    \/ GatherDone
    \/ Cleanup

\* ------------------------------------------------- two handlers side by side

\* What the handlers of two connections share is the module state of 25-39
\* (clients, configuration), which they do not write; call_sid and stream_sid
\* are locals of each call (110-111), closed over by its own two pumps.

\* The variables of the one-session model.
sessionVars ==
    << hPc, session, call_sid, stream_sid, client_state, application_state,
       inPc, inMsg, inExit, outPc, outMsg, outExit,
       inRecv, backendSent, outRecv, twilioLog, connects, releases >>

\* 109-111: the handler of connection s creates its locals and starts its pumps.
RelayConnect(s) ==
    /\ relay[s].pc = "connect"
    /\ relay' = [relay EXCEPT ![s].pc = "gather",
                              ![s].call_sid = None,
                              ![s].stream_sid = None]
    /\ UNCHANGED sessionVars

\* 121-123: the inbound pump of connection s captures the identifiers of a
\* start event.
RelayStart(s) ==
    /\ relay[s].pc = "gather"
    /\ relay[s].starts < MaxIn
    /\ relay' = [relay EXCEPT
                   ![s].starts = @ + 1,
                   ![s].call_sid = SessionCallAt(s, relay[s].starts + 1)[1],
                   ![s].stream_sid = SessionCallAt(s, relay[s].starts + 1)[2]]
    /\ UNCHANGED sessionVars

\* 144-150: the outbound pump of connection s sends audio with its stream_sid.
RelayAudio(s) ==
    /\ relay[s].pc = "gather"
    /\ Len(relay[s].sent) < MaxOut
    /\ relay' = [relay EXCEPT ![s].sent = Append(@, relay[s].stream_sid)]
    /\ UNCHANGED sessionVars

\* 155-160: the outbound pump of connection s transfers its call_sid and ends.
RelayTransfer(s) ==
    /\ relay[s].pc = "gather"
    /\ relay' = [relay EXCEPT ![s].transfers = Append(@, relay[s].call_sid),
                              ![s].pc = "done"]
    /\ UNCHANGED sessionVars

TwoNext ==
    \E s \in Sessions :
        \/ RelayConnect(s)
        \/ RelayStart(s)
        \/ RelayAudio(s)
        \/ RelayTransfer(s)

TwoSpec == Init /\ [][TwoNext]_vars

\* ----------------------------------------------------------- specification

Next ==
    \/ handle_media_stream
    \/ receive_from_twilio
    \/ send_to_twilio

Spec == Init /\ [][Next]_vars

\* The event loop runs every task that is ready, and the server reports the
\* application's close to a pending receive.  Nothing obliges the telephony
\* leg or the backend to send anything.
InboundStep == InStart \/ InMedia \/ InSendDone \/ InStop \/ InOther \/ InMalformed
OutboundStep == OutAudio \/ OutTransfer \/ OutReturn \/ OutNoTransfer
CloseReported == application_state = "DISCONNECTED" /\ TwilioDisconnect

FairSpec ==
    /\ Spec
    /\ WF_vars(InboundStep)
    /\ WF_vars(OutboundStep)
    /\ WF_vars(handle_media_stream)
    /\ WF_vars(CloseReported)

\* ------------------------------------------------------- reading histories

\* The positions of twilioLog that hold a call of the given kind.
LogIdx(op) == { i \in 1..Len(twilioLog) : twilioLog[i][1] = op }

NumTransfers == Cardinality(LogIdx("transfer"))
NumCloses == Cardinality(LogIdx("close"))

IsStart(m) ==
    m.json = "ok" /\ m.event = "start" /\ m.callSid # Missing /\ m.streamSid # Missing

IsMedia(m) == m.json = "ok" /\ m.event = "media" /\ m.payload # Missing

\* The number of transfer_to_human invocations in a response.
Invocations(r) ==
    Cardinality({ k \in 1..Len(r.tool_call) : r.tool_call[k].name = "transfer_to_human" })

RECURSIVE InvocationsReceived(_)
InvocationsReceived(n) ==
    IF n = 0 THEN 0 ELSE InvocationsReceived(n - 1) + Invocations(outRecv[n])

\* The session is terminated: the relay has called close, or the handler is
\* past the gather.
Terminated == NumCloses > 0 \/ hPc \in { "finally", "returned", "raised" }

\* ------------------------------------------------------------------ claims

\* C1: every media message sent to the telephony connection carries a streamSid
\* captured from a start event the session received before; audio that arrives
\* before any start event is never sent with the unset stream identifier.
C1_MediaCarriesCapturedStreamSid ==
    \A i \in LogIdx("send_json") :
        \E j \in 1..Len(inRecv) :
            IsStart(inRecv[j]) /\ inRecv[j].streamSid = twilioLog[i][2]

\* C2: when the outbound pump is past the event, the number of transfer calls issued
\* equals the number of transfer_to_human invocations it received.
C2_TransfersEqualInvocations ==
    outPc \in { "closing", "done" } =>
        NumTransfers = InvocationsReceived(Len(outRecv))

\* C2, amended: at most one transfer call is issued in a session.  A pump that
\* is back at the receive has issued none; a pump that has ended or is closing
\* has issued exactly one if it received an event with one or more
\* transfer_to_human invocations and the send of that event's audio did not
\* fail, and none otherwise.
C2_OneTransferPerInvokingEvent ==
    /\ NumTransfers <= 1
    /\ outPc \in { "recv", "got", "tool" } => NumTransfers = 0
    /\ outPc \in { "closing", "done" } =>
          NumTransfers =
             IF InvocationsReceived(Len(outRecv)) > 0 /\ outExit # "send_error"
             THEN 1 ELSE 0

\* C2 witness: the pump has ended after an event that carried two
\* transfer_to_human invocations and has issued one transfer.
C2_Witness ==
    /\ outPc = "done"
    /\ InvocationsReceived(Len(outRecv)) = 2
    /\ NumTransfers = 1

\* C3: once a transfer call has been issued, no media message follows it on
\* the telephony connection, the outbound pump is ending or has ended, and the
\* event that carried the invocation is the last one it received.
C3_NoMediaAfterTransfer ==
    \A i \in LogIdx("transfer") :
        /\ \A j \in LogIdx("send_json") : j < i
        /\ outPc \in { "closing", "done" }
        /\ Invocations(outRecv[Len(outRecv)]) > 0

\* C3 witness: audio was sent, then a later event triggered the transfer, and
\* the pump has ended.
C3_Witness ==
    /\ outPc = "done"
    /\ Len(outRecv) = 2
    /\ LogIdx("send_json") # {}
    /\ LogIdx("transfer") # {}

\* C4: once the session is terminated, nothing more is sent on either leg: no
\* chunk to the AI backend and no media message to the telephony connection.
C4_NoSendAfterTermination ==
    [][ Terminated =>
            /\ backendSent' = backendSent
            /\ LogIdx("send_json")' = LogIdx("send_json") ]_vars

\* C5: the relay calls close on the telephony connection at most once and no
\* close is refused; when the handler has ended the connection is closed, by
\* exactly one close of the relay unless the peer had disconnected.
C5_ClosedExactlyOnce ==
    /\ NumCloses <= 1
    /\ \A i \in LogIdx("close") : twilioLog[i][3] = "sent"
    /\ hPc \in { "returned", "raised" } =>
          /\ hPc = "returned"
          /\ NumCloses = 1 \/ client_state = "DISCONNECTED"

\* C6: the inbound pump does not end because of a malformed telephony message:
\* the message is dropped and the pump goes on receiving.
C6_MalformedDoesNotEndPump ==
    ~ (inPc = "done" /\ inExit = "malformed")

\* The position in inRecv of the first well-formed media event; 0 if none.
FirstMedia ==
    IF \E i \in 1..Len(inRecv) : IsMedia(inRecv[i])
    THEN CHOOSE i \in 1..Len(inRecv) :
            IsMedia(inRecv[i]) /\ \A j \in 1..(i - 1) : ~IsMedia(inRecv[j])
    ELSE 0

\* C7: no chunk is forwarded to the AI backend until a start event has been
\* received: a start event precedes the first forwarded media event.
C7_NoForwardBeforeStart ==
    backendSent # <<>> =>
        \E j \in 1..(FirstMedia - 1) : IsStart(inRecv[j])

\* C8: while the pumps run, a transfer whose remote update failed leaves the
\* call connected to the AI: the telephony connection is not closed and the
\* outbound pump goes on.
C8_FailedTransferLeavesCallConnected ==
    (hPc = "gather" /\ \E i \in LogIdx("transfer") : twilioLog[i][4] # "ok") =>
        /\ application_state = "CONNECTED"
        /\ outPc \notin { "closing", "done" }

\* The first transfer_to_human call of a response that has one.
Invocation(r) ==
    r.tool_call[CHOOSE k \in 1..Len(r.tool_call) :
                  /\ r.tool_call[k].name = "transfer_to_human"
                  /\ \A j \in 1..(k - 1) : r.tool_call[j].name # "transfer_to_human"]

\* C9: a transfer call carries the reason of the invocation, or "user_request"
\* when the invocation has none; whatever its outcome it is directly followed
\* by the close of the telephony connection, no close precedes it, and the
\* outbound pump leaves by its return, not by an exception.
C9_TransferThenClose ==
    \A i \in LogIdx("transfer") :
        /\ twilioLog[i][3] =
              IF Invocation(outRecv[Len(outRecv)]).reason = Missing
              THEN "user_request"
              ELSE Invocation(outRecv[Len(outRecv)]).reason
        /\ i < Len(twilioLog)
        /\ twilioLog[i + 1] = << "close", "transfer", "sent" >>
        /\ \A j \in LogIdx("close") : j > i
        /\ application_state = "DISCONNECTED"
        /\ outPc \in { "closing", "done" }
        /\ outExit \in { None, "transfer" }

\* C9 witness: a transfer without a reason whose remote update failed, the
\* connection closed after it and the pump returned.
C9_Witness ==
    /\ outPc = "done"
    /\ outExit = "transfer"
    /\ \E i \in LogIdx("transfer") :
          /\ twilioLog[i][3] = "user_request"
          /\ twilioLog[i][4] = "TwilioRestException"
          /\ twilioLog[i + 1][1] = "close"

\* A pump has ended because of a failure.
PumpFailed ==
    \/ inPc = "done" /\ inExit \in { "malformed", "send_error" }
    \/ outPc = "done" /\ outExit \in { "stream_error", "send_error" }

\* C10: after one pump has ended because of a failure, the other pump ends too
\* and the telephony connection is closed, whether or not the healthy leg
\* sends anything more.
C10_FailureEndsSession ==
    PumpFailed ~>
        /\ inPc = "done"
        /\ outPc = "done"
        /\ application_state = "DISCONNECTED" \/ client_state = "DISCONNECTED"

\* C11: once a transfer call has been issued, the inbound pump ends and the
\* handler leaves the gather and its cleanup, whatever the telephony leg does:
\* the close of the transfer path is what ends the inbound pump's receive.
C11_TransferEndsInboundPump ==
    (LogIdx("transfer") # {}) ~>
        (inPc = "done" /\ outPc = "done" /\ hPc \in { "returned", "raised" })

\* C11 witness: the transfer path has closed the connection and returned
\* while the inbound pump is still parked in its receive.
C11_Witness ==
    /\ outPc = "done"
    /\ outExit = "transfer"
    /\ application_state = "DISCONNECTED"
    /\ inPc = "recv"

\* The raw chunk a base64 text stands for.
RawOf(text) == IF text = "eA==" THEN "x" ELSE "y"

\* The chunks of the well-formed media events received, in order.
MediaReceived ==
    LET ms == SelectSeq(inRecv, IsMedia)
    IN  [ k \in 1..Len(ms) |-> RawOf(ms[k].payload) ]

\* The chunks of the audio events received from the backend, in order.
AudioReceived ==
    LET rs == SelectSeq(outRecv, LAMBDA r : r.audio # None)
    IN  [ k \in 1..Len(rs) |-> rs[k].audio ]

\* The chunks of the media messages sent to the telephony connection, in order.
MediaSent ==
    LET es == SelectSeq(twilioLog, LAMBDA e : e[1] = "send_json")
    IN  [ k \in 1..Len(es) |-> RawOf(es[k][3]) ]

IsPrefix(a, b) == Len(a) <= Len(b) /\ \A k \in 1..Len(a) : a[k] = b[k]

\* C12: in each direction the chunks forwarded are the chunks received, in
\* receipt order, one message per chunk: what was sent is a prefix of what was
\* received, and all of it whenever the pump is waiting for its next event.
C12_ForwardedInReceiptOrder ==
    /\ IsPrefix(backendSent, MediaReceived)
    /\ inPc = "recv" => Len(backendSent) = Len(MediaReceived)
    /\ IsPrefix(MediaSent, AudioReceived)
    /\ outPc = "recv" => Len(MediaSent) = Len(AudioReceived)

\* C12 witness: two different chunks have gone through in each direction.
C12_Witness ==
    /\ backendSent = << "x", "y" >>
    /\ MediaSent = << "x", "y" >>
    /\ inPc = "recv"
    /\ outPc = "recv"

\* The telephony leg has sent start, one or more media events and stop, the
\* inbound pump has handled the stop, and the backend has invoked no transfer.
StoppedAfterMedia ==
    /\ inPc = "done"
    /\ inExit = "stop"
    /\ Len(inRecv) >= 3
    /\ IsStart(inRecv[1])
    /\ \A k \in 2..(Len(inRecv) - 1) : IsMedia(inRecv[k])
    /\ InvocationsReceived(Len(outRecv)) = 0

\* C13: after start, media and stop with no transfer invoked, the session
\* ends cleanly (both pumps ended, the backend session released, the
\* telephony connection closed, the handler returned) even if the backend
\* emits nothing after the stop.
C13_StopEndsSession ==
    StoppedAfterMedia ~>
        \/ /\ hPc = "returned"
           /\ outPc = "done"
           /\ session = "released"
           /\ application_state = "DISCONNECTED"
        \/ InvocationsReceived(Len(outRecv)) > 0

\* A response whose tool call names only other tools.
OnlyOtherTools(r) == r.tool_call # <<>> /\ Invocations(r) = 0

\* C14: as long as no transfer_to_human has been received, tool calls of other
\* names cause no transfer and no close by the pump, and do not end it: after
\* such an event the pump is back at its receive, which alone can end it.
C14_OtherToolsIgnored ==
    /\ InvocationsReceived(Len(outRecv)) = 0 =>
          /\ NumTransfers = 0
          /\ outPc # "closing"
          /\ outExit # "transfer"
          /\ hPc = "gather" =>
                application_state = "CONNECTED" /\ LogIdx("close") = {}
    /\ ( /\ outPc = "done"
         /\ Len(outRecv) > 0
         /\ OnlyOtherTools(outRecv[Len(outRecv)])
         /\ outRecv[Len(outRecv)].audio = None ) =>
          outExit \in { "end", "stream_error" }

\* C14 witness: a tool call of another name was received first, and the audio
\* of a later event has been sent on the still open connection.
C14_Witness ==
    /\ Len(outRecv) = 2
    /\ OnlyOtherTools(outRecv[1])
    /\ MediaSent # <<>>
    /\ NumTransfers = 0
    /\ application_state = "CONNECTED"

\* The handler has ended, by return or by an exception.
HandlerEnded == hPc \in { "returned", "raised" }

\* C15: the backend session is released at most once, and only when both
\* pumps have ended; a handler that opened the session and has left the gather
\* has released it exactly once, and a session never opened is never released.
C15_SessionReleasedOnce ==
    /\ releases <= 1
    /\ releases = 1 <=> session = "released"
    /\ session = "released" => inPc = "done" /\ outPc = "done"
    /\ session = "open" => hPc = "gather"
    /\ (hPc \in { "finally", "returned", "raised" } /\ inPc # "idle") =>
          releases = 1
    /\ inPc = "idle" => releases = 0

\* C15 witness: the handler has ended after a transfer and has released the
\* session once.
C15_Witness ==
    /\ HandlerEnded
    /\ outExit = "transfer"
    /\ releases = 1

\* The identifiers the start events of connection s have carried so far.
OwnStreamSids(s) == { SessionCallAt(s, k)[2] : k \in 1..relay[s].starts }
OwnCallSids(s) == { SessionCallAt(s, k)[1] : k \in 1..relay[s].starts }

\* C16: with two sessions interleaved, the streamSid of every media message a
\* session sends and the callSid of every transfer it makes were captured from
\* a start event of that same session.
C16_IdentifiersFromOwnStart ==
    \A s \in Sessions :
        /\ \A k \in 1..Len(relay[s].sent) :
              relay[s].sent[k] \in OwnStreamSids(s)
        /\ \A k \in 1..Len(relay[s].transfers) :
              relay[s].transfers[k] \in OwnCallSids(s)

\* With two sessions interleaved, no session ever uses an identifier of the
\* other session: what it uses is its own or unset.
NoForeignIdentifier ==
    \A s \in Sessions :
        /\ \A k \in 1..Len(relay[s].sent) :
              relay[s].sent[k] \in OwnStreamSids(s) \cup { None }
        /\ \A k \in 1..Len(relay[s].transfers) :
              relay[s].transfers[k] \in OwnCallSids(s) \cup { None }

\* C17: call_sid and stream_sid are written once: after they have been set
\* they never change, whatever start events follow.
C17_IdentifiersWrittenOnce ==
    [][ /\ call_sid # None => call_sid' = call_sid
        /\ stream_sid # None => stream_sid' = stream_sid ]_vars

\* C18: when a transfer call is issued, every audio event received from the
\* backend, the one that carries the invocation included, has been sent to the
\* telephony connection before the transfer call and before the close.
C18_AudioSentBeforeTransfer ==
    LogIdx("transfer") # {} =>
        /\ MediaSent = AudioReceived
        /\ \A j \in LogIdx("send_json") :
              \A i \in LogIdx("transfer") \cup LogIdx("close") : j < i

\* C18 witness: audio of an earlier event and audio carried by the invoking
\* event were both sent, and then the transfer was made.
C18_Witness ==
    /\ LogIdx("transfer") # {}
    /\ outRecv[Len(outRecv)].audio # None
    /\ MediaSent = << "x", "y" >>

\* C19: every transfer call is given a callSid that a start event received in
\* the session carried, never the unset initial value.
C19_TransferForKnownCall ==
    \A i \in LogIdx("transfer") :
        /\ twilioLog[i][2] # None
        /\ \E j \in 1..Len(inRecv) :
              /\ inRecv[j].event = "start"
              /\ inRecv[j].callSid = twilioLog[i][2]

\* C20: the backend connection is attempted once; when the attempt fails no
\* pump is started, nothing is received or forwarded in either direction, no
\* transfer is made, and the handler returns after exactly one close of the
\* telephony connection, the cleanup's.
C20_ConnectFailureClosesOnce ==
    /\ connects <= 1
    /\ hPc # "connect" => connects = 1
    /\ (hPc # "connect" /\ session = "none") =>
          /\ inPc = "idle" /\ outPc = "idle"
          /\ inRecv = <<>> /\ outRecv = <<>>
          /\ backendSent = <<>>
          /\ LogIdx("send_json") = {} /\ LogIdx("transfer") = {}
          /\ hPc \in { "finally", "returned" }
          /\ hPc = "finally" => twilioLog = <<>>
          /\ hPc = "returned" =>
                twilioLog = << << "close", "cleanup", "sent" >> >>

\* C20 witness: the connection attempt failed and the handler has returned
\* with the telephony connection closed.
C20_Witness ==
    /\ hPc = "returned"
    /\ session = "none"
    /\ connects = 1
    /\ application_state = "DISCONNECTED"

====
